---- MODULE Spec2Model ----
(***************************************************************************)
(* Model of the siiir_points library (src/src/lib.rs): the value types     *)
(* Point2D<N> and Point3D<N>, their derived operators, conversions,        *)
(* transparent x/y access on Point3D and the checked sum of squares.       *)
(*                                                                         *)
(* N is modelled as a fixed-width integer type of W bits, signed           *)
(* (ty = "i") or unsigned (ty = "u").  Plain +, - and unary - follow the   *)
(* integer type's own overflow policy, which depends on the build: with    *)
(* overflow checks (chk = TRUE, the default of debug and test builds) an   *)
(* overflowing operation panics, without them it wraps.                    *)
(*                                                                         *)
(* A behaviour is one use of the library, as in src/src/test.rs: a point   *)
(* is constructed and may be mutated through its fields; then either a     *)
(* unary operation is applied to it, or a second point of the same type is *)
(* constructed and a binary operator is applied to the two.                *)
(***************************************************************************)
EXTENDS Integers, Sequences, FiniteSets, TLC

\* Width in bits of the integer type N.
W == 6
\* Coordinates of the receiver are drawn from {MIN, -K..K, MAX}.
K == 4
\* Coordinates of the second operand are drawn from {MIN, 0..J, MAX}.
J == 1

VARIABLES
    ty,     \* "i": N is the signed W-bit integer, "u": the unsigned one
    chk,    \* TRUE iff the build has overflow checks enabled
    a,      \* the receiver point (Point2D or Point3D)
    b,      \* the second operand, a point of the same type as a, or Absent
    pc,     \* "one" (a constructed), "two" (b constructed too),
            \* "done" (an operation returned) or "panicked"
    op,     \* the last operation performed: [name, f, v]
    out     \* what the last operation returned

vars == <<ty, chk, a, b, pc, op, out>>

----------------------------------------------------------------------------
\* The numeric type N

MinValue == IF ty = "i" THEN -(2 ^ (W - 1)) ELSE 0
MaxValue == IF ty = "i" THEN 2 ^ (W - 1) - 1 ELSE 2 ^ W - 1
InRange(v) == MinValue <= v /\ v <= MaxValue
\* Two's complement wrap-around into N.
Wrap(v) == ((v - MinValue) % (2 ^ W)) + MinValue

Some(v) == [tag |-> "Some", val |-> v]
None == [tag |-> "None"]
Ok(v) == [tag |-> "Ok", val |-> v]
Panic == [tag |-> "Panic"]
\* A panic raised inside an in-place operator, with the receiver as it was left.
PanicAt(recv) == [tag |-> "Panic", val |-> recv]

\* CheckedMul::checked_mul and CheckedAdd::checked_add of an integer type.
checked_mul(x, y) == IF InRange(x * y) THEN Some(x * y) ELSE None
\* Mutant: the sum wraps instead of being checked.
checked_add_wrapping(x, y) == Some(Wrap(x + y))
checked_add(x, y) == IF InRange(x + y) THEN Some(x + y) ELSE None

\* The result of a plain arithmetic operation of N whose exact value is r.
Arith(r) == IF InRange(r) THEN Ok(r) ELSE IF chk THEN Panic ELSE Ok(Wrap(r))
N_add(x, y) == Arith(x + y)
N_sub(x, y) == Arith(x - y)
N_neg(x) == Arith(0 - x)
N_default == 0

----------------------------------------------------------------------------
\* Point2D

Point2D(x, y) == [x |-> x, y |-> y]
Point2D_from_arr(arr) == Point2D(arr[1], arr[2])
Point2D_into_arr(p) == <<p.x, p.y>>
Point2D_from_tuple(t) == Point2D(t.t0, t.t1)
Point2D_into_tuple(p) == [t0 |-> p.x, t1 |-> p.y]
Point2D_default == Point2D(N_default, N_default)
Point2D_min_value == Point2D_from_arr([i \in 1..2 |-> MinValue])
Point2D_max_value == Point2D_from_arr([i \in 1..2 |-> MaxValue])

\* Mutant: the y coordinate of the right operand is dropped.
Point2D_add_lhs_y(p, q) ==
    LET x == N_add(p.x, q.x)
    IN  IF x.tag = "Panic" THEN Panic ELSE Ok(Point2D(x.val, p.y))

Point2D_add(p, q) ==
    LET x == N_add(p.x, q.x)
        y == N_add(p.y, q.y)
    IN  IF x.tag = "Panic" \/ y.tag = "Panic" THEN Panic
        ELSE Ok(Point2D(x.val, y.val))

Point2D_sub(p, q) ==
    LET x == N_sub(p.x, q.x)
        y == N_sub(p.y, q.y)
    IN  IF x.tag = "Panic" \/ y.tag = "Panic" THEN Panic
        ELSE Ok(Point2D(x.val, y.val))

\* Mutant: only x is negated.
Point2D_neg_x_only(p) ==
    LET x == N_neg(p.x)
    IN  IF x.tag = "Panic" THEN Panic ELSE Ok(Point2D(x.val, p.y))

Point2D_neg(p) ==
    LET x == N_neg(p.x)
        y == N_neg(p.y)
    IN  IF x.tag = "Panic" \/ y.tag = "Panic" THEN Panic
        ELSE Ok(Point2D(x.val, y.val))

\* self.x += rhs.x; self.y += rhs.y: a panic leaves the fields already updated.
Point2D_add_assign(p, q) ==
    LET x == N_add(p.x, q.x)
    IN  IF x.tag = "Panic" THEN PanicAt(p)
        ELSE LET p1 == [p EXCEPT !.x = x.val]
                 y == N_add(p.y, q.y)
             IN  IF y.tag = "Panic" THEN PanicAt(p1)
                 ELSE Ok([p1 EXCEPT !.y = y.val])

\* Mutant: y is added instead of subtracted.
Point2D_sub_assign_add_y(p, q) ==
    LET x == N_sub(p.x, q.x)
    IN  IF x.tag = "Panic" THEN PanicAt(p)
        ELSE LET p1 == [p EXCEPT !.x = x.val]
                 y == N_add(p.y, q.y)
             IN  IF y.tag = "Panic" THEN PanicAt(p1)
                 ELSE Ok([p1 EXCEPT !.y = y.val])

Point2D_sub_assign(p, q) ==
    LET x == N_sub(p.x, q.x)
    IN  IF x.tag = "Panic" THEN PanicAt(p)
        ELSE LET p1 == [p EXCEPT !.x = x.val]
                 y == N_sub(p.y, q.y)
             IN  IF y.tag = "Panic" THEN PanicAt(p1)
                 ELSE Ok([p1 EXCEPT !.y = y.val])

Point2D_eq(p, q) == p.x = q.x /\ p.y = q.y
\* derive(Hash): the fields are fed to the hasher in declaration order.
Point2D_hash(p, state) == Append(Append(state, p.x), p.y)
Point2D_fmt(p) == "( " \o ToString(p.x) \o ", " \o ToString(p.y) \o " )"

----------------------------------------------------------------------------
\* The sum of squares, as the macro impl_hypot_sq expands

\* Mutant: the other coordinates are added without being squared.
RECURSIVE hypot_sq_others_unsquared(_, _)
hypot_sq_others_unsquared(sum, others) ==
    IF others = <<>> THEN Some(sum)
    ELSE LET s == checked_add(sum, Head(others))
         IN  IF s.tag = "None" THEN None
             ELSE hypot_sq_others_unsquared(s.val, Tail(others))

RECURSIVE hypot_sq_others(_, _)
hypot_sq_others(sum, others) ==
    IF others = <<>> THEN Some(sum)
    ELSE LET m == checked_mul(Head(others), Head(others))
         IN  IF m.tag = "None" THEN None
             ELSE LET s == checked_add(sum, m.val)
                  IN  IF s.tag = "None" THEN None
                      ELSE hypot_sq_others(s.val, Tail(others))

impl_hypot_sq(first_operand, others) ==
    LET m == checked_mul(first_operand, first_operand)
    IN  IF m.tag = "None" THEN None ELSE hypot_sq_others(m.val, others)

\* Mutant: y is left out of the sum.
Point2D_hypot_sq_x_only(p) == impl_hypot_sq(p.x, <<>>)
Point2D_hypot_sq(p) == impl_hypot_sq(p.x, <<p.y>>)

----------------------------------------------------------------------------
\* Point3D: a Point2D named xy, and z

Point3D(xy, z) == [xy |-> xy, z |-> z]
\* Deref: *p is the embedded 2D point, so p.x is (*p).x.
Point3D_deref(p) == p.xy
\* Mutant: the write goes to a copy of the embedded point and is lost.
Point3D_deref_mut_set_copy(p, f, v) == p
\* DerefMut: the assignment p.f = v for f among x, y goes to the embedded point.
Point3D_deref_mut_set(p, f, v) ==
    [p EXCEPT !.xy = [Point3D_deref(p) EXCEPT ![f] = v]]
\* The assignment p.xy.f = v.
Point3D_xy_set(p, f, v) == [p EXCEPT !.xy[f] = v]
Point3D_z_set(p, v) == [p EXCEPT !.z = v]

Point3D_from_arr(arr) ==
    Point3D(Point2D_from_arr(<<arr[1], arr[2]>>), arr[3])
\* Mutant: x and y are swapped.
Point3D_into_arr_swapped(value) == <<value.xy.y, value.xy.x, value.z>>
Point3D_into_arr(value) == <<value.xy.x, value.xy.y, value.z>>
Point3D_from_tuple(t) == Point3D_from_arr(<<t.t0, t.t1, t.t2>>)
Point3D_into_tuple(value) ==
    LET arr == Point3D_into_arr(value)
    IN  [t0 |-> arr[1], t1 |-> arr[2], t2 |-> arr[3]]
Point3D_default == Point3D(Point2D_default, N_default)
Point3D_min_value == Point3D_from_arr([i \in 1..3 |-> MinValue])
Point3D_max_value == Point3D_from_arr([i \in 1..3 |-> MaxValue])

Point3D_add(p, q) ==
    LET xy == Point2D_add(p.xy, q.xy)
        z == N_add(p.z, q.z)
    IN  IF xy.tag = "Panic" \/ z.tag = "Panic" THEN Panic
        ELSE Ok(Point3D(xy.val, z.val))

Point3D_sub(p, q) ==
    LET xy == Point2D_sub(p.xy, q.xy)
        z == N_sub(p.z, q.z)
    IN  IF xy.tag = "Panic" \/ z.tag = "Panic" THEN Panic
        ELSE Ok(Point3D(xy.val, z.val))

Point3D_neg(p) ==
    LET xy == Point2D_neg(p.xy)
        z == N_neg(p.z)
    IN  IF xy.tag = "Panic" \/ z.tag = "Panic" THEN Panic
        ELSE Ok(Point3D(xy.val, z.val))

\* self.xy += rhs.xy; self.z += rhs.z
Point3D_add_assign(p, q) ==
    LET xy == Point2D_add_assign(p.xy, q.xy)
    IN  IF xy.tag = "Panic" THEN PanicAt([p EXCEPT !.xy = xy.val])
        ELSE LET p1 == [p EXCEPT !.xy = xy.val]
                 z == N_add(p.z, q.z)
             IN  IF z.tag = "Panic" THEN PanicAt(p1)
                 ELSE Ok([p1 EXCEPT !.z = z.val])

Point3D_sub_assign(p, q) ==
    LET xy == Point2D_sub_assign(p.xy, q.xy)
    IN  IF xy.tag = "Panic" THEN PanicAt([p EXCEPT !.xy = xy.val])
        ELSE LET p1 == [p EXCEPT !.xy = xy.val]
                 z == N_sub(p.z, q.z)
             IN  IF z.tag = "Panic" THEN PanicAt(p1)
                 ELSE Ok([p1 EXCEPT !.z = z.val])

\* Mutant: z is not compared.
Point3D_eq_xy_only(p, q) == Point2D_eq(p.xy, q.xy)
Point3D_eq(p, q) == Point2D_eq(p.xy, q.xy) /\ p.z = q.z
Point3D_hash(p, state) == Append(Point2D_hash(p.xy, state), p.z)
Point3D_fmt(p) ==
    "( " \o ToString(Point3D_deref(p).x) \o ", " \o ToString(Point3D_deref(p).y)
         \o ", " \o ToString(p.z) \o " )"
\* Mutant: the method of the embedded 2D point, reached through Deref.
Point3D_hypot_sq_of_xy(p) == Point2D_hypot_sq(Point3D_deref(p))
Point3D_hypot_sq(p) ==
    impl_hypot_sq(Point3D_deref(p).x, <<Point3D_deref(p).y, p.z>>)

----------------------------------------------------------------------------
\* Both types: the one the receiver's static type selects

Is3D(p) == "z" \in DOMAIN p
Is2D(p) == ~Is3D(p)

Point_add(p, q) == IF Is3D(p) THEN Point3D_add(p, q) ELSE Point2D_add(p, q)
Point_sub(p, q) == IF Is3D(p) THEN Point3D_sub(p, q) ELSE Point2D_sub(p, q)
Point_neg(p) == IF Is3D(p) THEN Point3D_neg(p) ELSE Point2D_neg(p)
Point_add_assign(p, q) ==
    IF Is3D(p) THEN Point3D_add_assign(p, q) ELSE Point2D_add_assign(p, q)
Point_sub_assign(p, q) ==
    IF Is3D(p) THEN Point3D_sub_assign(p, q) ELSE Point2D_sub_assign(p, q)
Point_eq(p, q) == IF Is3D(p) THEN Point3D_eq(p, q) ELSE Point2D_eq(p, q)
Point_hash(p, state) ==
    IF Is3D(p) THEN Point3D_hash(p, state) ELSE Point2D_hash(p, state)
Point_hypot_sq(p) == IF Is3D(p) THEN Point3D_hypot_sq(p) ELSE Point2D_hypot_sq(p)
Point_fmt(p) == IF Is3D(p) THEN Point3D_fmt(p) ELSE Point2D_fmt(p)
Point_into_arr(p) == IF Is3D(p) THEN Point3D_into_arr(p) ELSE Point2D_into_arr(p)
Point_into_tuple(p) ==
    IF Is3D(p) THEN Point3D_into_tuple(p) ELSE Point2D_into_tuple(p)
Point_from_arr(arr) ==
    IF Len(arr) = 3 THEN Point3D_from_arr(arr) ELSE Point2D_from_arr(arr)
Point_from_tuple(t) ==
    IF "t2" \in DOMAIN t THEN Point3D_from_tuple(t) ELSE Point2D_from_tuple(t)
Point_default(p) == IF Is3D(p) THEN Point3D_default ELSE Point2D_default
Point_min_value(p) == IF Is3D(p) THEN Point3D_min_value ELSE Point2D_min_value
Point_max_value(p) == IF Is3D(p) THEN Point3D_max_value ELSE Point2D_max_value

----------------------------------------------------------------------------
\* Inputs

CoordsA == {v \in {MinValue, MaxValue} \cup (-K..K) : InRange(v)}
CoordsB == {v \in {MinValue, MaxValue} \cup (0..J) : InRange(v)}
Arrays(C, n) == [1..n -> C]
Tuples(C, n) ==
    IF n = 3 THEN [t0 : C, t1 : C, t2 : C] ELSE [t0 : C, t1 : C]
Dim(p) == IF Is3D(p) THEN 3 ELSE 2

Op(name) == [name |-> name, f |-> "", v |-> 0]
OpSet(name, f, v) == [name |-> name, f |-> f, v |-> v]

Absent == [tag |-> "Absent"]

\* let p = Point::from(array) or Point::from(tuple)
Init ==
    /\ ty \in {"i", "u"}
    /\ chk \in BOOLEAN
    /\ \E n \in {2, 3} :
          \/ /\ a \in {Point_from_arr(arr) : arr \in Arrays(CoordsA, n)}
             /\ op = Op("from_arr")
          \/ /\ a \in {Point_from_tuple(t) : t \in Tuples(CoordsA, n)}
             /\ op = Op("from_tuple")
    /\ b = Absent
    /\ pc = "one"
    /\ out = None

----------------------------------------------------------------------------
\* Operations that replace or mutate the receiver before the operator is applied

\* p = Point::default()
Default ==
    /\ pc = "one"
    /\ a' = Point_default(a)
    /\ op' = Op("default")
    /\ UNCHANGED <<ty, chk, b, pc, out>>

\* p = Bounded::min_value()
MinValuePoint ==
    /\ pc = "one"
    /\ a' = Point_min_value(a)
    /\ op' = Op("min_value")
    /\ UNCHANGED <<ty, chk, b, pc, out>>

\* p = Bounded::max_value()
MaxValuePoint ==
    /\ pc = "one"
    /\ a' = Point_max_value(a)
    /\ op' = Op("max_value")
    /\ UNCHANGED <<ty, chk, b, pc, out>>

\* p.f = v on a Point2D
WriteField ==
    /\ pc = "one"
    /\ Is2D(a)
    /\ \E f \in {"x", "y"}, v \in CoordsA :
          /\ a' = [a EXCEPT ![f] = v]
          /\ op' = OpSet("write_field", f, v)
    /\ UNCHANGED <<ty, chk, b, pc, out>>

\* p.f = v on a Point3D, f among x, y: through DerefMut
WriteDeref ==
    /\ pc = "one"
    /\ Is3D(a)
    /\ \E f \in {"x", "y"}, v \in CoordsA :
          /\ a' = Point3D_deref_mut_set(a, f, v)
          /\ op' = OpSet("write_deref", f, v)
    /\ UNCHANGED <<ty, chk, b, pc, out>>

\* p.xy.f = v on a Point3D
WriteXY ==
    /\ pc = "one"
    /\ Is3D(a)
    /\ \E f \in {"x", "y"}, v \in CoordsA :
          /\ a' = Point3D_xy_set(a, f, v)
          /\ op' = OpSet("write_xy", f, v)
    /\ UNCHANGED <<ty, chk, b, pc, out>>

\* p.z = v on a Point3D
WriteZ ==
    /\ pc = "one"
    /\ Is3D(a)
    /\ \E v \in CoordsA :
          /\ a' = Point3D_z_set(a, v)
          /\ op' = OpSet("write_z", "z", v)
    /\ UNCHANGED <<ty, chk, b, pc, out>>

\* let q = Point::from(array): the second operand
Operand ==
    /\ pc = "one"
    /\ b' \in {Point_from_arr(arr) : arr \in Arrays(CoordsB, Dim(a))}
    /\ op' = Op("operand")
    /\ pc' = "two"
    /\ UNCHANGED <<ty, chk, a, out>>

----------------------------------------------------------------------------
\* Operators and methods

Returned(r) == IF r.tag = "Panic" THEN "panicked" ELSE "done"

Add ==
    /\ pc = "two"
    /\ out' = Point_add(a, b)
    /\ op' = Op("add")
    /\ pc' = Returned(out')
    /\ UNCHANGED <<ty, chk, a, b>>

Sub ==
    /\ pc = "two"
    /\ out' = Point_sub(a, b)
    /\ op' = Op("sub")
    /\ pc' = Returned(out')
    /\ UNCHANGED <<ty, chk, a, b>>

\* Neg is implemented by the signed integer types only.
Neg ==
    /\ pc = "one"
    /\ ty = "i"
    /\ out' = Point_neg(a)
    /\ op' = Op("neg")
    /\ pc' = Returned(out')
    /\ UNCHANGED <<ty, chk, a, b>>

AddAssign ==
    /\ pc = "two"
    /\ LET r == Point_add_assign(a, b)
       IN  /\ a' = r.val
           /\ pc' = Returned(r)
    /\ op' = Op("add_assign")
    /\ out' = None
    /\ UNCHANGED <<ty, chk, b>>

SubAssign ==
    /\ pc = "two"
    /\ LET r == Point_sub_assign(a, b)
       IN  /\ a' = r.val
           /\ pc' = Returned(r)
    /\ op' = Op("sub_assign")
    /\ out' = None
    /\ UNCHANGED <<ty, chk, b>>

Eq ==
    /\ pc = "two"
    /\ out' = Ok(Point_eq(a, b))
    /\ op' = Op("eq")
    /\ pc' = "done"
    /\ UNCHANGED <<ty, chk, a, b>>

\* Both points hashed, each with a fresh hasher.
Hash ==
    /\ pc = "two"
    /\ out' = Ok(<<Point_hash(a, <<>>), Point_hash(b, <<>>)>>)
    /\ op' = Op("hash")
    /\ pc' = "done"
    /\ UNCHANGED <<ty, chk, a, b>>

HypotSq ==
    /\ pc = "one"
    /\ out' = Point_hypot_sq(a)
    /\ op' = Op("hypot_sq")
    /\ pc' = "done"
    /\ UNCHANGED <<ty, chk, a, b>>

IntoArr ==
    /\ pc = "one"
    /\ out' = Ok(Point_into_arr(a))
    /\ op' = Op("into_arr")
    /\ pc' = "done"
    /\ UNCHANGED <<ty, chk, a, b>>

IntoTuple ==
    /\ pc = "one"
    /\ out' = Ok(Point_into_tuple(a))
    /\ op' = Op("into_tuple")
    /\ pc' = "done"
    /\ UNCHANGED <<ty, chk, a, b>>

Display ==
    /\ pc = "one"
    /\ out' = Ok(Point_fmt(a))
    /\ op' = Op("fmt")
    /\ pc' = "done"
    /\ UNCHANGED <<ty, chk, a, b>>

\* (p.x, p.y) read on a Point3D
ReadXY ==
    /\ pc = "one"
    /\ Is3D(a)
    /\ out' = Ok(<<Point3D_deref(a).x, Point3D_deref(a).y>>)
    /\ op' = Op("read_xy")
    /\ pc' = "done"
    /\ UNCHANGED <<ty, chk, a, b>>

Next ==
    \/ Default \/ MinValuePoint \/ MaxValuePoint
    \/ WriteField \/ WriteDeref \/ WriteXY \/ WriteZ \/ Operand
    \/ Add \/ Sub \/ Neg \/ AddAssign \/ SubAssign
    \/ Eq \/ Hash \/ HypotSq \/ IntoArr \/ IntoTuple \/ Display \/ ReadXY

Spec == Init /\ [][Next]_vars

----------------------------------------------------------------------------
\* Properties

Sq(v) == v * v
X(p) == IF Is3D(p) THEN p.xy.x ELSE p.x
Y(p) == IF Is3D(p) THEN p.xy.y ELSE p.y
\* The sum of squares over the unbounded integers.
MathSum(p) == Sq(X(p)) + Sq(Y(p)) + (IF Is3D(p) THEN Sq(p.z) ELSE 0)
\* Some checked operation of hypot_sq, in the order x*x, y*y, sum, z*z, sum,
\* has a result outside N.
SomeCheckedOverflows(p) ==
    \/ ~InRange(Sq(X(p)))
    \/ ~InRange(Sq(Y(p)))
    \/ ~InRange(Sq(X(p)) + Sq(Y(p)))
    \/ Is3D(p) /\ ~InRange(Sq(p.z))
    \/ Is3D(p) /\ ~InRange(Sq(X(p)) + Sq(Y(p)) + Sq(p.z))
HasMin(p) ==
    X(p) = MinValue \/ Y(p) = MinValue \/ (Is3D(p) /\ p.z = MinValue)

\* C1: on a Point2D, when x*x, y*y and their sum are representable in N,
\* hypot_sq returns Some(x*x + y*y).
C1_Hypot2D ==
    (op.name = "hypot_sq" /\ Is2D(a)
        /\ InRange(Sq(a.x)) /\ InRange(Sq(a.y)) /\ InRange(Sq(a.x) + Sq(a.y)))
    => out = Some(Sq(a.x) + Sq(a.y))
C1_Witness ==
    op.name = "hypot_sq" /\ a = Point2D(3, 4) /\ out = Some(25)

\* C2: on a Point3D, when every checked multiply and add succeeds, hypot_sq
\* returns Some(x*x + y*y + z*z), x and y being those of the embedded point.
C2_Hypot3D ==
    (op.name = "hypot_sq" /\ Is3D(a)
        /\ InRange(Sq(a.xy.x)) /\ InRange(Sq(a.xy.y))
        /\ InRange(Sq(a.xy.x) + Sq(a.xy.y)) /\ InRange(Sq(a.z))
        /\ InRange(Sq(a.xy.x) + Sq(a.xy.y) + Sq(a.z)))
    => out = Some(Sq(a.xy.x) + Sq(a.xy.y) + Sq(a.z))
C2_Witness ==
    op.name = "hypot_sq" /\ a = Point3D(Point2D(1, 2), 2) /\ out = Some(9)

\* C3: a hypot_sq step never panics and leaves the point unchanged; when some
\* checked operation overflows N it returns None, in particular on the point
\* whose coordinates are all N's maximum; it never returns Some of a wrapped
\* or partial sum.
C3_HypotOverflow ==
    [][op'.name = "hypot_sq" =>
          /\ pc' = "done"
          /\ a' = a
          /\ SomeCheckedOverflows(a) => out' = None
          /\ a = Point_max_value(a) => out' = None
          /\ out'.tag = "Some" => out'.val = MathSum(a) /\ InRange(out'.val)]_vars
C3_Witness ==
    op.name = "hypot_sq" /\ a = Point2D(4, 4) /\ ty = "i" /\ out = None

\* C10: for the signed and the unsigned type, hypot_sq returns None exactly
\* when the sum of squares over the unbounded integers exceeds N's maximum,
\* and Some of that exact sum otherwise.
C10_HypotExact ==
    op.name = "hypot_sq" =>
        /\ out = None <=> MathSum(a) > MaxValue
        /\ out.tag = "Some" => out.val = MathSum(a)
C10_Witness ==
    /\ op.name = "hypot_sq" /\ ty = "u"
    /\ a = Point3D(Point2D(4, 4), 4) /\ out = Some(48)

\* C4: the conversions to array and to tuple never fail, list the coordinates
\* in the order x, y (, z), and converting back gives the same point.
C4_RoundTrip ==
    /\ op.name = "into_arr" =>
          /\ pc = "done" /\ out.tag = "Ok"
          /\ Point_from_arr(out.val) = a
          /\ out.val = IF Is3D(a) THEN <<a.xy.x, a.xy.y, a.z>> ELSE <<a.x, a.y>>
    /\ op.name = "into_tuple" =>
          /\ pc = "done" /\ out.tag = "Ok"
          /\ Point_from_tuple(out.val) = a
          /\ out.val.t0 = X(a) /\ out.val.t1 = Y(a)
          /\ Is3D(a) => out.val.t2 = a.z
    /\ op.name \in {"from_arr", "from_tuple"} => pc = "one"
C4_Witness ==
    /\ op.name = "into_tuple" /\ a = Point3D(Point2D(1, -2), 3)
    /\ out = Ok([t0 |-> 1, t1 |-> -2, t2 |-> 3])

\* C5 as stated: for every point a of a signed type, -a is a value and
\* a + (-a) is the default point, coordinates equal to N's minimum included.
C5_Original ==
    op.name = "neg" =>
        out.tag = "Ok" /\ Point_add(a, out.val) = Ok(Point_default(a))

\* C5 amended: -a panics exactly when overflow checks are enabled and some
\* coordinate of a is N's minimum; otherwise a + (-a) is the default point.
C5_AdditiveInverse ==
    op.name = "neg" =>
        /\ out.tag = "Panic" <=> (chk /\ HasMin(a))
        /\ out.tag = "Ok" => Point_add(a, out.val) = Ok(Point_default(a))
C5_Witness ==
    /\ op.name = "neg" /\ ~chk /\ Is3D(a) /\ a.z = MinValue
    /\ out.tag = "Ok" /\ out.val.z = MinValue

\* C6: on a Point3D, x and y read through Deref are xy.x and xy.y; a write of
\* x or y, through DerefMut or through xy, is read back on both paths and
\* changes neither the other of x, y nor z; a write of z leaves xy unchanged.
C6_Delegation ==
    [][/\ op'.name \in {"write_deref", "write_xy"} =>
             /\ a'.xy[op'.f] = op'.v
             /\ Point3D_deref(a')[op'.f] = op'.v
             /\ \A g \in {"x", "y"} \ {op'.f} :
                    a'.xy[g] = a.xy[g] /\ Point3D_deref(a')[g] = a.xy[g]
             /\ a'.z = a.z
       /\ op'.name = "write_z" => a'.z = op'.v /\ a'.xy = a.xy
       /\ op'.name = "read_xy" =>
             /\ out' = Ok(<<a.xy.x, a.xy.y>>)
             /\ a' = a]_vars
C6_Witness ==
    /\ op = OpSet("write_deref", "x", 4)
    /\ a = Point3D(Point2D(4, -2), 3)

\* C7: a += b leaves in a what a + b returns, and a -= b what a - b returns;
\* the in-place operator panics exactly when the value-producing one does;
\* b is unchanged.
C7_InPlace ==
    [][/\ op'.name = "add_assign" =>
             /\ b' = b
             /\ Point_add(a, b).tag = "Ok" =>
                    pc' = "done" /\ a' = Point_add(a, b).val
             /\ Point_add(a, b).tag = "Panic" => pc' = "panicked"
       /\ op'.name = "sub_assign" =>
             /\ b' = b
             /\ Point_sub(a, b).tag = "Ok" =>
                    pc' = "done" /\ a' = Point_sub(a, b).val
             /\ Point_sub(a, b).tag = "Panic" => pc' = "panicked"]_vars
C7_Witness ==
    /\ op.name = "sub_assign" /\ pc = "done"
    /\ b = Point3D(Point2D(1, 0), 1) /\ a = Point3D(Point2D(2, 4), 3)

\* C8: == returns true exactly when the two points have the same coordinates
\* (a difference in z alone makes them unequal), and equal points feed the
\* hasher the same data, which is the coordinates in order.
C8_EqHash ==
    /\ op.name = "eq" => out.val <=> a = b
    /\ op.name = "hash" =>
          /\ a = b => out.val[1] = out.val[2]
          /\ out.val[1] = <<X(a), Y(a)>> \o (IF Is3D(a) THEN <<a.z>> ELSE <<>>)
C8_Witness ==
    /\ op.name = "eq" /\ Is3D(a) /\ a.xy = b.xy /\ a.z # b.z
    /\ out = Ok(FALSE)

\* C9: a + b and b + a have the same outcome, whether a value, a wrapped
\* value or a panic.
C9_AddCommutes ==
    op.name = "add" => out = Point_add(b, a)
C9_Witness ==
    /\ op.name = "add" /\ ~chk /\ Is2D(a) /\ a.y = MaxValue /\ b.y = 1
    /\ out.tag = "Ok" /\ out.val.y = MinValue

====
